---- MODULE Spec2Model ----
(***************************************************************************)
(* Model of analyze_video (src/app.py): chunk planning, the per-chunk      *)
(* extract / recognize / parse loop with its per-chunk exception handler,  *)
(* the grouping of matches by song key, the merge pass over each song's    *)
(* time ranges, the final sort, and the outer (fatal) exception handler.   *)
(* Times are whole seconds.  The external collaborators (yt-dlp, ffprobe,  *)
(* ffmpeg, the recognition HTTP APIs) are the environment: each call       *)
(* either raises or returns one of a small set of payloads.                *)
(***************************************************************************)
EXTENDS Integers, Sequences, FiniteSets, TLC

VARIABLES
    pc,             \* position in analyze_video
    use_audd,       \* argument of analyze_video: which provider is used
    results,        \* the results dict that analyze_video returns
    duration,       \* local `duration`
    chunks,         \* local `chunks`: sequence of <<start_time, chunk_duration>>
    i,              \* 0-based index of the next chunk of the for loop
    detected_songs, \* local `detected_songs`: insertion-ordered dict, as a
                    \* sequence of [song_key, song_data]
    chunk_log,      \* what the collaborators did for each chunk processed so far
    failure         \* which fatal step raised: "none", "download" or "duration"

vars == <<pc, use_audd, results, duration, chunks, i, detected_songs, chunk_log, failure>>

----------------------------------------------------------------------------
(* Bounds and program constants *)

MaxDuration == 41

CHUNK_DURATION == 15
OVERLAP == 5

Durations == 0..MaxDuration

Min(a, b) == IF a <= b THEN a ELSE b
Max(a, b) == IF a >= b THEN a ELSE b

----------------------------------------------------------------------------
(* format_timestamp: seconds -> "MM:SS" or "HH:MM:SS" *)

Pad2(n) == IF n < 10 THEN "0" \o ToString(n) ELSE ToString(n)

format_timestamp(seconds) ==
    LET hours   == seconds \div 3600
        minutes == (seconds % 3600) \div 60
        secs    == seconds % 60
    IN  IF hours > 0
        THEN Pad2(hours) \o ":" \o Pad2(minutes) \o ":" \o Pad2(secs)
        ELSE Pad2(minutes) \o ":" \o Pad2(secs)

----------------------------------------------------------------------------
(* Chunk planning: the while loop of analyze_video *)

\* Variant: the tail window is not clamped to the duration
RECURSIVE PlanFromNoClamp(_, _, _)
PlanFromNoClamp(current_time, d, acc) ==
    IF current_time < d
    THEN PlanFromNoClamp(current_time + CHUNK_DURATION - OVERLAP, d,
                         Append(acc, <<current_time, CHUNK_DURATION>>))
    ELSE acc

\* Variant: the loop stops once the remaining span is within the overlap
RECURSIVE PlanFromStopEarly(_, _, _)
PlanFromStopEarly(current_time, d, acc) ==
    IF current_time + OVERLAP < d
    THEN LET chunk_end == Min(current_time + CHUNK_DURATION, d)
         IN  PlanFromStopEarly(current_time + CHUNK_DURATION - OVERLAP, d,
                               Append(acc, <<current_time, chunk_end - current_time>>))
    ELSE acc

RECURSIVE PlanFrom(_, _, _)
PlanFrom(current_time, d, acc) ==
    IF current_time < d
    THEN LET chunk_end == Min(current_time + CHUNK_DURATION, d)
         IN  PlanFrom(current_time + CHUNK_DURATION - OVERLAP, d,
                      Append(acc, <<current_time, chunk_end - current_time>>))
    ELSE acc

PlanChunks(d) == PlanFrom(0, d, <<>>)

----------------------------------------------------------------------------
(* What the external collaborators can do *)

\* download_youtube_audio: non-zero exit of yt-dlp, no file found, or the
\* subprocess timeout
DownloadErrors ==
    { "Failed to download audio: ERROR",
      "Audio file not found after download",
      "Command 'yt-dlp' timed out after 300 seconds" }

\* get_audio_duration: ffprobe output that is not JSON or has no duration
DurationErrors ==
    { "Expecting value: line 1 column 1 (char 0)", "'format'" }

\* extract_audio_chunk: non-zero exit of ffmpeg or the 60 s subprocess timeout
ExtractErrors ==
    { "Failed to extract chunk: ERROR",
      "Command 'ffmpeg' timed out after 60 seconds" }

\* recognize_with_acrcloud / recognize_with_audd: requests.post timeout
RecognizeErrors == { "Read timed out. (read timeout=30)" }

\* parse_acrcloud_result / parse_audd_result on a payload of the wrong shape
\* (a field that should be an object is a string)
ParseErrors == { "'str' object has no attribute 'get'" }

\* Tracks of an ACRCloud payload (metadata.music[0])
ACRTracks ==
    { [title |-> "A",   artists |-> <<"B", "C">>, album |-> "X", duration_ms |-> 61500, score |-> 90],
      [title |-> "A",   artists |-> <<"B", "C">>, album |-> "Z", duration_ms |-> 61500, score |-> 70],
      [title |-> "A|B", artists |-> <<"C">>,      album |-> "Y", duration_ms |-> 30000, score |-> 80],
      [title |-> "D",   artists |-> <<"B">>,      album |-> "X", duration_ms |-> 45999, score |-> 100] }

\* JSON bodies recognize_with_acrcloud can return.  An absent key is an
\* empty sequence, a present one a one-element sequence.
ACRBodies ==
    { [error |-> <<"ACRCloud credentials not configured">>, status |-> <<>>, music |-> <<>>],
      [error |-> <<>>, status |-> <<3001>>, music |-> <<>>],
      [error |-> <<>>, status |-> <<0>>,    music |-> <<>>] }
    \cup { [error |-> <<>>, status |-> <<0>>, music |-> <<t>>] : t \in ACRTracks }

\* Tracks of an AudD payload (result)
AuddTracks ==
    { [title |-> "A",   artist |-> "B|C", album |-> "X"],
      [title |-> "A",   artist |-> "B|C", album |-> "Z"],
      [title |-> "A|B", artist |-> "C",   album |-> "Y"],
      [title |-> "D",   artist |-> "B",   album |-> "X"] }

\* JSON bodies recognize_with_audd can return
AuddBodies ==
    { [error |-> <<"AudD API token not configured">>, status |-> <<>>, result |-> <<>>],
      [error |-> <<>>, status |-> <<"error">>,   result |-> <<>>],
      [error |-> <<>>, status |-> <<"success">>, result |-> <<>>] }
    \cup { [error |-> <<>>, status |-> <<"success">>, result |-> <<t>>] : t \in AuddTracks }

Bodies(audd) == IF audd THEN AuddBodies ELSE ACRBodies

\* A body that reports an error instead of a recognition result: the
\* 'not configured' indicator or a status other than 0 / 'success'
IsErrorBody(audd, body) ==
    \/ body.error # <<>>
    \/ body.status # (IF audd THEN <<"success">> ELSE <<0>>)

----------------------------------------------------------------------------
(* Result normalizers.  None is <<>>, a parsed record p is <<p>>. *)

parse_acrcloud_result(result) ==
    IF result.status # <<0>>
    THEN <<>>
    ELSE IF result.music = <<>>
    THEN <<>>
    ELSE LET track == result.music[1]
         IN  << [title      |-> track.title,
                 artists    |-> track.artists,
                 album      |-> track.album,
                 duration   |-> track.duration_ms \div 1000,
                 confidence |-> track.score] >>

parse_audd_result(result) ==
    IF result.status # <<"success">> \/ result.result = <<>>
    THEN <<>>
    ELSE LET track == result.result[1]
         IN  << [title      |-> track.title,
                 artists    |-> <<track.artist>>,
                 album      |-> track.album,
                 duration   |-> 0,
                 confidence |-> 100] >>

Parse(audd, result) ==
    IF audd THEN parse_audd_result(result) ELSE parse_acrcloud_result(result)

----------------------------------------------------------------------------
(* Grouping of matches by song key *)

\* '|'.join(names)
RECURSIVE JoinBar(_)
JoinBar(names) ==
    IF names = <<>> THEN ""
    ELSE IF Len(names) = 1 THEN names[1]
    ELSE names[1] \o "|" \o JoinBar(Tail(names))

\* f"{parsed['title']}|{'|'.join(parsed['artists'])}"
song_key(parsed) == parsed.title \o "|" \o JoinBar(parsed.artists)

\* Position of key in the dict, 0 when absent
KeyIndex(songs, key) ==
    IF \E k \in 1..Len(songs) : songs[k].song_key = key
    THEN CHOOSE k \in 1..Len(songs) : songs[k].song_key = key
    ELSE 0

TimeRange(start_time, chunk_duration, d) ==
    [start         |-> format_timestamp(start_time),
     end           |-> format_timestamp(Min(start_time + chunk_duration, d)),
     start_seconds |-> start_time,
     end_seconds   |-> Min(start_time + chunk_duration, d)]

\* The `if parsed:` block: insert the song on first sight, then append the
\* chunk's timestamp and time range
AddMatch(songs, parsed, start_time, chunk_duration, d) ==
    LET key    == song_key(parsed)
        fresh  == [song_key |-> key,
                   song_data |-> [title |-> parsed.title, artists |-> parsed.artists,
                                  album |-> parsed.album, duration |-> parsed.duration,
                                  confidence |-> parsed.confidence,
                                  timestamps |-> <<>>, time_ranges |-> <<>>]]
        with   == IF KeyIndex(songs, key) = 0 THEN Append(songs, fresh) ELSE songs
        k      == KeyIndex(with, key)
    IN  [with EXCEPT ![k].song_data.timestamps = Append(@, start_time),
                     ![k].song_data.time_ranges =
                          Append(@, TimeRange(start_time, chunk_duration, d))]

\* The per-chunk handler: except Exception as e
ChunkError(idx, start_time, msg) ==
    "Chunk " \o ToString(idx) \o " (" \o format_timestamp(start_time) \o "): " \o msg

\* Variant: the handler reports a 1-based chunk number
ChunkExceptOneBased(res, idx, start_time, msg) ==
    [res EXCEPT !.errors = Append(@, ChunkError(idx + 1, start_time, msg))]

ChunkExcept(res, idx, start_time, msg) ==
    [res EXCEPT !.errors = Append(@, ChunkError(idx, start_time, msg))]

\* Variant: the outer handler swallows the exception without recording it
OuterExceptSilent(res, msg) == res

\* The outer handler: except Exception as e
OuterExcept(res, msg) ==
    [res EXCEPT !.errors = Append(@, msg)]

----------------------------------------------------------------------------
(* Consolidation: merge pass per song, then the sort of the song list *)

\* sorted(ranges, key=start_seconds): stable insertion sort
RECURSIVE InsertByStart(_, _)
InsertByStart(sorted, r) ==
    IF sorted = <<>> THEN <<r>>
    ELSE IF sorted[Len(sorted)].start_seconds <= r.start_seconds
    THEN Append(sorted, r)
    ELSE Append(InsertByStart(SubSeq(sorted, 1, Len(sorted) - 1), r), sorted[Len(sorted)])

RECURSIVE SortRanges(_)
SortRanges(ranges) ==
    IF ranges = <<>> THEN <<>>
    ELSE InsertByStart(SortRanges(SubSeq(ranges, 1, Len(ranges) - 1)), ranges[Len(ranges)])

\* Variant: ranges are merged only when they touch or overlap (no gap tolerance)
MergeIntoNoGap(merged_ranges, r) ==
    IF merged_ranges # <<>>
       /\ r.start_seconds <= merged_ranges[Len(merged_ranges)].end_seconds
    THEN LET last     == merged_ranges[Len(merged_ranges)]
             new_end  == Max(last.end_seconds, r.end_seconds)
         IN  [merged_ranges EXCEPT ![Len(merged_ranges)] =
                 [last EXCEPT !.end_seconds = new_end,
                              !.end = format_timestamp(new_end)]]
    ELSE Append(merged_ranges, r)

\* Variant: a merge adds the length of the merged range instead of taking the
\* later end
MergeIntoAddLength(merged_ranges, r) ==
    IF merged_ranges # <<>>
       /\ r.start_seconds <= merged_ranges[Len(merged_ranges)].end_seconds + OVERLAP
    THEN LET last     == merged_ranges[Len(merged_ranges)]
             new_end  == last.end_seconds + (r.end_seconds - r.start_seconds)
         IN  [merged_ranges EXCEPT ![Len(merged_ranges)] =
                 [last EXCEPT !.end_seconds = new_end,
                              !.end = format_timestamp(new_end)]]
    ELSE Append(merged_ranges, r)

\* One iteration of `for r in ranges`
MergeInto(merged_ranges, r) ==
    IF merged_ranges # <<>>
       /\ r.start_seconds <= merged_ranges[Len(merged_ranges)].end_seconds + OVERLAP
    THEN LET last     == merged_ranges[Len(merged_ranges)]
             new_end  == Max(last.end_seconds, r.end_seconds)
         IN  [merged_ranges EXCEPT ![Len(merged_ranges)] =
                 [last EXCEPT !.end_seconds = new_end,
                              !.end = format_timestamp(new_end)]]
    ELSE Append(merged_ranges, r)

RECURSIVE MergeSorted(_, _)
MergeSorted(merged_ranges, ranges) ==
    IF ranges = <<>> THEN merged_ranges
    ELSE MergeSorted(MergeInto(merged_ranges, Head(ranges)), Tail(ranges))

MergePass(time_ranges) == MergeSorted(<<>>, SortRanges(time_ranges))

\* Variant: songs are keyed by the start of their last range
SongSortKeyLast(song) ==
    IF song.time_ranges # <<>>
    THEN song.time_ranges[Len(song.time_ranges)].start_seconds
    ELSE 0

\* The sort key of the final list
SongSortKey(song) ==
    IF song.time_ranges # <<>> THEN song.time_ranges[1].start_seconds ELSE 0

RECURSIVE InsertSong(_, _)
InsertSong(sorted, s) ==
    IF sorted = <<>> THEN <<s>>
    ELSE IF SongSortKey(sorted[Len(sorted)]) <= SongSortKey(s)
    THEN Append(sorted, s)
    ELSE Append(InsertSong(SubSeq(sorted, 1, Len(sorted) - 1), s), sorted[Len(sorted)])

RECURSIVE SortSongs(_)
SortSongs(songs) ==
    IF songs = <<>> THEN <<>>
    ELSE InsertSong(SortSongs(SubSeq(songs, 1, Len(songs) - 1)), songs[Len(songs)])

\* The loop over detected_songs.items(): every song gets its merged ranges
\* and is appended to results['songs']
MergedSongs(songs) ==
    [k \in 1..Len(songs) |->
        [songs[k].song_data EXCEPT !.time_ranges = MergePass(@)]]

----------------------------------------------------------------------------
(* Initial state: the results dict as constructed at the top of analyze_video *)

Init ==
    /\ pc = "download"
    /\ use_audd \in BOOLEAN
    /\ results = [url |-> "youtube.com/v", songs |-> <<>>, analysis_chunks |-> 0,
                  video_duration |-> 0, errors |-> <<>>]
    /\ duration = 0
    /\ chunks = <<>>
    /\ i = 0
    /\ detected_songs = <<>>
    /\ chunk_log = <<>>
    /\ failure = "none"

----------------------------------------------------------------------------
(* Actions: the steps of analyze_video *)

LoopVars == <<use_audd, duration, chunks>>

download_ok ==
    /\ pc = "download"
    /\ pc' = "probe"
    /\ UNCHANGED <<use_audd, results, duration, chunks, i, detected_songs, chunk_log, failure>>

download_raises ==
    /\ pc = "download"
    /\ \E msg \in DownloadErrors : results' = OuterExcept(results, msg)
    /\ failure' = "download"
    /\ pc' = "done"
    /\ UNCHANGED <<use_audd, duration, chunks, i, detected_songs, chunk_log>>

\* get_audio_duration returns; the duration is recorded and the chunks planned
duration_ok ==
    /\ pc = "probe"
    /\ \E d \in Durations :
          /\ duration' = d
          /\ chunks' = PlanChunks(d)
          /\ results' = ("video_duration_formatted" :> format_timestamp(d))
                        @@ [results EXCEPT !.video_duration = d,
                                           !.analysis_chunks = Len(PlanChunks(d))]
    /\ i' = 0
    /\ detected_songs' = <<>>
    /\ pc' = "chunks"
    /\ UNCHANGED <<use_audd, chunk_log, failure>>

duration_raises ==
    /\ pc = "probe"
    /\ \E msg \in DurationErrors : results' = OuterExcept(results, msg)
    /\ failure' = "duration"
    /\ pc' = "done"
    /\ UNCHANGED <<use_audd, duration, chunks, i, detected_songs, chunk_log>>

LogEntry(extracted, recognized, raised, body, parsed) ==
    [index |-> i, start_time |-> chunks[i + 1][1], chunk_duration |-> chunks[i + 1][2],
     extracted |-> extracted, recognized |-> recognized,
     raised |-> raised, body |-> body, parsed |-> parsed]

\* Loop iteration in which extract_audio_chunk raises
extract_raises ==
    /\ pc = "chunks" /\ i < Len(chunks)
    /\ \E msg \in ExtractErrors :
          /\ results' = ChunkExcept(results, i, chunks[i + 1][1], msg)
          /\ chunk_log' = Append(chunk_log, LogEntry(TRUE, FALSE, <<msg>>, <<>>, <<>>))
    /\ i' = i + 1
    /\ UNCHANGED <<pc, detected_songs, failure>> /\ UNCHANGED LoopVars

\* Loop iteration in which the recognition call raises
recognize_raises ==
    /\ pc = "chunks" /\ i < Len(chunks)
    /\ \E msg \in RecognizeErrors :
          /\ results' = ChunkExcept(results, i, chunks[i + 1][1], msg)
          /\ chunk_log' = Append(chunk_log, LogEntry(TRUE, TRUE, <<msg>>, <<>>, <<>>))
    /\ i' = i + 1
    /\ UNCHANGED <<pc, detected_songs, failure>> /\ UNCHANGED LoopVars

\* Loop iteration in which the normalizer raises on a payload of the wrong shape
parse_raises ==
    /\ pc = "chunks" /\ i < Len(chunks)
    /\ \E msg \in ParseErrors :
          /\ results' = ChunkExcept(results, i, chunks[i + 1][1], msg)
          /\ chunk_log' = Append(chunk_log, LogEntry(TRUE, TRUE, <<msg>>, <<>>, <<>>))
    /\ i' = i + 1
    /\ UNCHANGED <<pc, detected_songs, failure>> /\ UNCHANGED LoopVars

\* Loop iteration in which the provider answers with a JSON body
recognized ==
    /\ pc = "chunks" /\ i < Len(chunks)
    /\ \E body \in Bodies(use_audd) :
          LET parsed == Parse(use_audd, body)
          IN  /\ detected_songs' =
                    IF parsed # <<>>
                    THEN AddMatch(detected_songs, parsed[1],
                                  chunks[i + 1][1], chunks[i + 1][2], duration)
                    ELSE detected_songs
              /\ chunk_log' = Append(chunk_log, LogEntry(TRUE, TRUE, <<>>, <<body>>, parsed))
    /\ i' = i + 1
    /\ UNCHANGED <<pc, results, failure>> /\ UNCHANGED LoopVars

\* After the loop: merge each song's ranges, sort the songs, return
consolidate ==
    /\ pc = "chunks" /\ i = Len(chunks)
    /\ results' = [results EXCEPT !.songs = SortSongs(MergedSongs(detected_songs))]
    /\ pc' = "done"
    /\ UNCHANGED <<use_audd, duration, chunks, i, detected_songs, chunk_log, failure>>

Next ==
    \/ download_ok
    \/ download_raises
    \/ duration_ok
    \/ duration_raises
    \/ extract_raises
    \/ recognize_raises
    \/ parse_raises
    \/ recognized
    \/ consolidate

Spec == Init /\ [][Next]_vars

----------------------------------------------------------------------------
(* Properties *)

Planned  == pc \in {"chunks", "done"} /\ failure = "none"
Returned == pc = "done" /\ failure = "none"

Step == CHUNK_DURATION - OVERLAP

\* ceil(a / b) for b > 0
CeilDiv(a, b) == -((-a) \div b)

ChunkStart(k) == chunks[k][1]
ChunkEnd(k)   == chunks[k][1] + chunks[k][2]

SeqToSet(sq) == { sq[k] : k \in 1..Len(sq) }

\* C1: for every duration > 0 the planned windows tile [0, duration]: the
\* first starts at 0, each next one starts exactly (window - overlap) after
\* the previous one and no later than the previous one ends, every window has
\* start >= 0, length > 0 and start + length <= duration, and the last window
\* ends at the duration.
ChunksTileDuration ==
    (Planned /\ duration > 0) =>
        /\ chunks # <<>>
        /\ ChunkStart(1) = 0
        /\ \A k \in 2..Len(chunks) :
              /\ ChunkStart(k) = ChunkStart(k - 1) + Step
              /\ ChunkStart(k) <= ChunkEnd(k - 1)
        /\ \A k \in 1..Len(chunks) :
              /\ ChunkStart(k) >= 0
              /\ chunks[k][2] > 0
              /\ ChunkEnd(k) <= duration
        /\ ChunkEnd(Len(chunks)) = duration

ChunksTileDurationWitness ==
    /\ Planned
    /\ Len(chunks) >= 3
    /\ chunks[Len(chunks)][2] < CHUNK_DURATION

\* C2 as stated: the number of planned windows is
\* ceil((duration - overlap) / (window - overlap)).
ChunkCountMinusOverlap ==
    (Planned /\ duration > 0) =>
        /\ Len(chunks) = CeilDiv(duration - OVERLAP, Step)
        /\ results.analysis_chunks = Len(chunks)

\* C2 amended: the number of planned windows, reported as analysis_chunks,
\* is ceil(duration / (window - overlap)).
ChunkCountIsCeilOfSteps ==
    (Planned /\ duration > 0) =>
        /\ Len(chunks) = CeilDiv(duration, Step)
        /\ results.analysis_chunks = Len(chunks)

ChunkCountWitness ==
    /\ Planned
    /\ duration % Step \in 1..OVERLAP
    /\ Len(chunks) >= 2

\* The error entries the chunks of a log must have produced, in chunk order
RECURSIVE ExpectedErrors(_)
ExpectedErrors(log) ==
    IF log = <<>> THEN <<>>
    ELSE LET e    == Head(log)
             rest == ExpectedErrors(Tail(log))
         IN  IF e.raised # <<>>
             THEN <<ChunkError(e.index, chunks[e.index + 1][1], e.raised[1])>> \o rest
             ELSE rest

\* The chunk's range lies inside one range of the song entry whose key is
\* the key of the chunk's match
MatchIsReported(e) ==
    \E s \in SeqToSet(results.songs) :
        /\ song_key(s) = song_key(e.parsed[1])
        /\ \E r \in SeqToSet(s.time_ranges) :
              /\ r.start_seconds <= e.start_time
              /\ e.start_time + e.chunk_duration <= r.end_seconds

\* C3: when extraction or recognition of a chunk raises, errors gains exactly
\* one entry for it, naming the chunk index and its formatted start time;
\* every chunk is still extracted (and recognized unless its own extraction
\* failed), and the matches of the other chunks are in songs.
ChunkFailureIsRecorded ==
    Returned =>
        /\ Len(chunk_log) = Len(chunks)
        /\ \A k \in 1..Len(chunk_log) :
              /\ chunk_log[k].index = k - 1
              /\ chunk_log[k].extracted
              /\ chunk_log[k].recognized <=>
                    (chunk_log[k].raised = <<>> \/ chunk_log[k].raised[1] \notin ExtractErrors)
              /\ chunk_log[k].parsed # <<>> => MatchIsReported(chunk_log[k])
        /\ results.errors = ExpectedErrors(chunk_log)

ChunkFailureWitness ==
    /\ Returned
    /\ \E k \in 1..Len(chunk_log) :
          /\ k >= 2
          /\ chunk_log[k].raised = <<"Command 'ffmpeg' timed out after 60 seconds">>
          /\ \E j \in (k + 1)..Len(chunk_log) : chunk_log[j].parsed # <<>>
          /\ \E j \in 1..(k - 1) : chunk_log[j].parsed # <<>>
    /\ Len(results.errors) = 1

\* Texts an error entry of a chunk can carry
ChunkMessages ==
    ExtractErrors \cup RecognizeErrors \cup ParseErrors
    \cup { "ACRCloud credentials not configured", "AudD API token not configured",
           "status 3001", "status error" }

ChunkIsTagged(e) ==
    \E err \in SeqToSet(results.errors) :
        \E msg \in ChunkMessages : err = ChunkError(e.index, e.start_time, msg)

\* C4: an error payload for chunk i (non-zero status, 'not configured')
\* contributes no song and is recorded in errors, tagged with the chunk
\* index and the chunk's formatted start time.
ErrorPayloadIsRecorded ==
    Returned =>
        \A k \in 1..Len(chunk_log) :
            (chunk_log[k].body # <<>> /\ IsErrorBody(use_audd, chunk_log[k].body[1])) =>
                /\ chunk_log[k].parsed = <<>>
                /\ ChunkIsTagged(chunk_log[k])

\* C5: in every returned song the ranges are ordered by start_seconds, each
\* has start_seconds <= end_seconds, and each range starts more than the
\* merge gap after the end of the one before it.
MergedRangesAreSeparated ==
    Returned =>
        \A s \in SeqToSet(results.songs) :
            /\ \A k \in 1..Len(s.time_ranges) :
                  s.time_ranges[k].start_seconds <= s.time_ranges[k].end_seconds
            /\ \A k \in 2..Len(s.time_ranges) :
                  /\ s.time_ranges[k - 1].start_seconds < s.time_ranges[k].start_seconds
                  /\ s.time_ranges[k - 1].end_seconds < s.time_ranges[k].start_seconds
                  /\ s.time_ranges[k].start_seconds >
                        s.time_ranges[k - 1].end_seconds + OVERLAP

MergedRangesWitness ==
    /\ Returned
    /\ \E s \in SeqToSet(results.songs) :
          /\ Len(s.time_ranges) >= 2
          /\ Len(s.timestamps) > Len(s.time_ranges)

\* C6: the returned songs are ordered by the start of their first range.
SongsOrderedByFirstRange ==
    Returned =>
        \A p \in 1..Len(results.songs) : \A q \in 1..Len(results.songs) :
            p < q =>
                /\ results.songs[p].time_ranges # <<>>
                /\ results.songs[q].time_ranges # <<>>
                /\ results.songs[p].time_ranges[1].start_seconds
                      <= results.songs[q].time_ranges[1].start_seconds

SongsOrderedWitness ==
    /\ Returned
    /\ Len(results.songs) >= 2
    /\ Len(results.songs[1].time_ranges) >= 2

\* C7: when the download or the duration probe raises, analyze_video returns
\* the structured result with no songs and the fatal message as the only
\* error, and no chunk is extracted or recognized.
FatalFailureReturnsResult ==
    failure # "none" =>
        /\ pc = "done"
        /\ results.songs = <<>>
        /\ results.analysis_chunks = 0
        /\ Len(results.errors) = 1
        /\ results.errors[1] \in
              (IF failure = "download" THEN DownloadErrors ELSE DurationErrors)
        /\ chunk_log = <<>>
        /\ chunks = <<>>

FatalFailureWitness ==
    /\ pc = "done"
    /\ failure = "duration"
    /\ results.errors = <<"'format'">>

Seconds(ranges) ==
    [k \in 1..Len(ranges) |-> <<ranges[k].start_seconds, ranges[k].end_seconds>>]

\* C8: the merge pass applied to a returned (already merged) range list, or
\* to that list concatenated with itself, yields the same list of
\* (start_seconds, end_seconds).
MergePassIsIdempotent ==
    Returned =>
        \A s \in SeqToSet(results.songs) :
            /\ Seconds(MergePass(s.time_ranges)) = Seconds(s.time_ranges)
            /\ Seconds(MergePass(s.time_ranges \o s.time_ranges)) = Seconds(s.time_ranges)

MergePassWitness ==
    /\ Returned
    /\ \E s \in SeqToSet(results.songs) : Len(s.time_ranges) = 2
    /\ \E s \in SeqToSet(results.songs) :
          Len(s.time_ranges) = 1 /\ Len(s.timestamps) = 2

\* Song identity: title and ordered artist list
Identity(parsed) == <<parsed.title, parsed.artists>>

MatchedAs(k, id) ==
    /\ chunk_log[k].parsed # <<>>
    /\ Identity(chunk_log[k].parsed[1]) = id

Identities ==
    { Identity(chunk_log[k].parsed[1]) : k \in { j \in 1..Len(chunk_log) : chunk_log[j].parsed # <<>> } }

\* Chunks a and b (a <= b) lie inside one returned range of the song entry
\* that chunk a's match went into
InOneRange(a, b) ==
    \E s \in SeqToSet(results.songs) :
        /\ song_key(s) = song_key(chunk_log[a].parsed[1])
        /\ \E r \in SeqToSet(s.time_ranges) :
              /\ r.start_seconds <= ChunkStart(a)
              /\ ChunkEnd(b) <= r.end_seconds

\* C9: detections of one song in chunks i and i+1, or in chunks i and i+2
\* with chunk i+1 missed, end up in one range from the start of chunk i to
\* the end of the later chunk; detections separated by two or more missed
\* chunks end up in separate ranges.
MissedChunkIsAbsorbed ==
    Returned =>
        \A id \in Identities : \A a \in 1..Len(chunk_log) : \A b \in 1..Len(chunk_log) :
            (a < b /\ MatchedAs(a, id) /\ MatchedAs(b, id)
                   /\ \A m \in (a + 1)..(b - 1) : ~MatchedAs(m, id)) =>
                IF b - a <= 2 THEN InOneRange(a, b) ELSE ~InOneRange(a, b)

\* Chunks a and b were accumulated into the same entry of detected_songs
SameEntry(a, b) ==
    \E e \in 1..Len(detected_songs) :
        /\ chunk_log[a].start_time \in SeqToSet(detected_songs[e].song_data.timestamps)
        /\ chunk_log[b].start_time \in SeqToSet(detected_songs[e].song_data.timestamps)

\* C10: two matches go into the same detected song exactly when their titles
\* and ordered artist lists are equal, and the entry keeps the metadata of
\* its first match.
GroupedByTitleAndArtists ==
    \A a \in 1..Len(chunk_log) : \A b \in 1..Len(chunk_log) :
        (chunk_log[a].parsed # <<>> /\ chunk_log[b].parsed # <<>>) =>
            /\ SameEntry(a, b) <=>
                  Identity(chunk_log[a].parsed[1]) = Identity(chunk_log[b].parsed[1])
            /\ (SameEntry(a, b) /\ a <= b
                  /\ \A m \in 1..(a - 1) : ~SameEntry(m, a)) =>
                  \E e \in 1..Len(detected_songs) :
                      /\ chunk_log[b].start_time \in SeqToSet(detected_songs[e].song_data.timestamps)
                      /\ detected_songs[e].song_data.album = chunk_log[a].parsed[1].album
                      /\ detected_songs[e].song_data.title = chunk_log[a].parsed[1].title

====
